---- MODULE Spec2Model ----
(***************************************************************************)
(* Model of gestionnaire_carts.py: the GestionnaireCartes deck manager     *)
(* (registry, draw pile, hand, discard pile, shuffle seed), its save file  *)
(* and the process-wide pseudo random generator used by the shuffle.       *)
(***************************************************************************)
EXTENDS Integers, Sequences, FiniteSets, Bags, TLC

(* ------------------------------ bounds --------------------------------- *)

\* Card numbers looked for on disk: 1..MaxNumero stands for range(1, 55).
MaxNumero == 2

\* Seeds: random.randint(1, MaxSeed) stands for random.randint(1, 1000000).
MaxSeed == 2

\* Number of states of the pseudo random generator.
ModAlea == 4

\* Most card numbers in a save file written by another program.
MaxExterne == 2

\* The default nombre_cartes of distribuer_main_initiale, the size of the
\* hand main() and menu choice 5 deal: 1 stands for 7.
NombreCartesDefaut == 1

\* Most cards held by the three piles together: melanger_pioche refills the
\* draw pile whatever the hand and the discard pile hold, and a load that
\* stops half way keeps the piles it did not reach, so the piles can grow
\* without end; a shuffle or a load that would exceed this is not explored.
MaxCartes == 3

(* ------------------------------- state --------------------------------- *)

VARIABLES
    toutes_cartes,  \* the registry, a sequence of cards
    pioche,         \* the draw pile, front first
    main_joueur,    \* the hand
    defausse,       \* the discard pile, top last
    seed_melange,   \* None or <<seed>>
    fichier,        \* the save file sauvegarde_partie.json
    etat_alea,      \* state of the module-level generator of `random`
    dossiers,       \* the files of the directories pioche, main, defausse
    dernier,        \* the last call made and what it returned
    position,       \* where main() and menu_principal stand
    ordres          \* history: seed -> what its last shuffle gave, or None

prog == <<toutes_cartes, pioche, main_joueur, defausse, seed_melange,
          fichier, etat_alea, dossiers, dernier>>

hist == <<ordres>>

vars == <<prog, position, hist>>

\* Optional[int]: None is the empty sequence, an integer s is <<s>>.
None == << >>

Numeros == 1..MaxNumero

\* Carte(numero, nom_fichier): nom_fichier is always "<numero>.png", so it is
\* not stored; chemin is 0 for None and the card number for the path of
\* "<numero>.png" in the source directory.
Carte(numero) == [numero |-> numero, chemin |-> 0]

\* The numbers of a sequence of cards.
NumerosDe(cartes) == [k \in 1..Len(cartes) |-> cartes[k].numero]

(* --------------------------- registry ---------------------------------- *)

RECURSIVE CartesTrouvees(_, _)
\* The loop of charger_cartes over the numbers from `numero` to MaxNumero.
CartesTrouvees(presents, numero) ==
    IF numero > MaxNumero THEN << >>
    ELSE IF numero \in presents
         THEN <<[Carte(numero) EXCEPT !.chemin = numero]>>
                  \o CartesTrouvees(presents, numero + 1)
         ELSE CartesTrouvees(presents, numero + 1)

\* charger_cartes on a source directory holding the files of `presents`.
ChargerCartes(presents) == CartesTrouvees(presents, 1)

\* Fault: a number the registry does not hold gives its first card.
TrouverDansSansSubstitut(cartes, k, numero) ==
    IF \E j \in k..Len(cartes) : cartes[j].numero = numero
    THEN cartes[CHOOSE j \in k..Len(cartes) :
                    /\ cartes[j].numero = numero
                    /\ \A i \in k..(j - 1) : cartes[i].numero # numero]
    ELSE cartes[1]

RECURSIVE TrouverDans(_, _, _)
TrouverDans(cartes, k, numero) ==
    IF k > Len(cartes) THEN Carte(numero)
    ELSE IF cartes[k].numero = numero THEN cartes[k]
         ELSE TrouverDans(cartes, k + 1, numero)

\* trouver_carte: the first registry card of that number, else a new card.
trouver_carte(numero) == TrouverDans(toutes_cartes, 1, numero)

TrouverCartes(nums) == [k \in 1..Len(nums) |-> trouver_carte(nums[k])]

(* ------------------------------ sorting -------------------------------- *)

RECURSIVE Inserer(_, _)
\* Insert c behind every card whose number is not greater (stable).
Inserer(triees, c) ==
    IF triees = << >> THEN <<c>>
    ELSE IF triees[Len(triees)].numero <= c.numero THEN Append(triees, c)
         ELSE Append(Inserer(SubSeq(triees, 1, Len(triees) - 1), c),
                     triees[Len(triees)])

RECURSIVE TrierDepuis(_, _, _)
TrierDepuis(triees, cartes, k) ==
    IF k > Len(cartes) THEN triees
    ELSE TrierDepuis(Inserer(triees, cartes[k]), cartes, k + 1)

\* list.sort(key=lambda c: c.numero): a stable ascending sort.
Trier(cartes) == TrierDepuis(<< >>, cartes, 1)

(* ------------------------ pseudo random generator ---------------------- *)

\* One step of the generator (a linear congruential stand-in for the
\* Mersenne Twister of the `random` module).
Suivant(e) == (5 * e + 3) % ModAlea

\* random.seed(seed): the state depends on the seed alone.
Graine(seed) == seed % ModAlea

\* _randbelow(n) from state e: the value drawn, in 0..n-1.
RandBelow(e, n) == Suivant(e) % n

\* Fault: x[i] = x[j] without the exchange.
EchangerSansRetour(x, i, j) == [x EXCEPT ![i] = x[j]]

Echanger(x, i, j) == [x EXCEPT ![i] = x[j], ![j] = x[i]]

RECURSIVE Shuffle(_, _, _)
\* random.shuffle(x): for i from len(x)-1 down to 1 (here Len(x) down to 2),
\* j = randbelow(i + 1), swap x[i] and x[j]. Gives the list and the state.
Shuffle(x, i, e) ==
    IF i < 2 THEN [liste |-> x, etat |-> e]
    ELSE Shuffle(Echanger(x, i, 1 + RandBelow(e, i)), i - 1, Suivant(e))

(* ------------------------------ save file ------------------------------ *)

Cles == {"seed_melange", "pioche", "main_joueur", "defausse"}

\* A file that does not exist.
Absent == [existe |-> FALSE, lisible |-> FALSE, cles |-> {},
           seed_melange |-> None, pioche |-> << >>,
           main_joueur |-> << >>, defausse |-> << >>]

\* A file that exists and is not JSON.
Illisible == [Absent EXCEPT !.existe = TRUE]

\* Fault: the "pioche" entry is built from the hand.
EtatCleConfondue(seed, p, m, d) ==
    [existe |-> TRUE, lisible |-> TRUE,
     cles |-> {"seed_melange", "pioche", "main_joueur", "defausse"},
     seed_melange |-> seed, pioche |-> NumerosDe(m),
     main_joueur |-> NumerosDe(m), defausse |-> NumerosDe(d)]

\* The JSON object json.dump writes for the dictionary `etat` of
\* sauvegarder_partie: None becomes null, cards become their numbers.
Etat(seed, p, m, d) ==
    [existe |-> TRUE, lisible |-> TRUE, cles |-> Cles,
     seed_melange |-> seed, pioche |-> NumerosDe(p),
     main_joueur |-> NumerosDe(m), defausse |-> NumerosDe(d)]


\* A JSON object with the keys `cles`; the value of a key that is not there
\* is never read and is kept at a default.
Objet(cles, seed, p, m, d) ==
    [existe |-> TRUE, lisible |-> TRUE, cles |-> cles,
     seed_melange |-> IF "seed_melange" \in cles THEN seed ELSE None,
     pioche       |-> IF "pioche" \in cles THEN p ELSE << >>,
     main_joueur  |-> IF "main_joueur" \in cles THEN m ELSE << >>,
     defausse     |-> IF "defausse" \in cles THEN d ELSE << >>]

\* Card numbers another program may write: those of the source directory,
\* whether or not the registry holds them.
NumerosExternes == 1..MaxNumero

ListesExternes ==
    UNION {[1..n -> NumerosExternes] : n \in 0..MaxExterne}

\* The files another program (or an editor) may leave in place of the save
\* file: nothing, something that is not JSON, an object with every key and
\* at most MaxExterne card numbers in all, or an object that lacks keys.
FichiersComplets ==
    {Objet(Cles, <<1>>, t[1], t[2], t[3]) :
        t \in {u \in ListesExternes \X ListesExternes \X ListesExternes :
                  Len(u[1]) + Len(u[2]) + Len(u[3]) <= MaxExterne}}

FichiersIncomplets ==
    {Objet(c, <<1>>, <<1>>, <<2>>, << >>) : c \in (SUBSET Cles) \ {Cles}}

FichiersExternes ==
    {Absent, Illisible} \cup FichiersComplets \cup FichiersIncomplets

(* ------------------------- mirror directories -------------------------- *)

\* creer_dossiers_jeu: the three directories are made anew, empty.
DossiersVides == [pioche |-> {}, main |-> {}, defausse |-> {}]

\* The files copier_carte_vers_dossier leaves in a directory for the cards
\* of a pile: "<numero>.png" for each card that has a path (the files of the
\* source directory stay in place); a card without path is skipped.
Copies(cartes) ==
    {cartes[k].numero : k \in {j \in 1..Len(cartes) : cartes[j].chemin # 0}}

\* organiser_cartes_dans_dossiers with the piles p, m, d: the directories
\* are emptied, then each receives the files of its pile.
Organiser(p, m, d) ==
    [pioche |-> Copies(p), main |-> Copies(m), defausse |-> Copies(d)]

(* ------------------------------- calls --------------------------------- *)

\* A call and the value it returned (TRUE for a call that returns nothing).
Appel(op, ok) == [op |-> op, ok |-> ok]

\* self.toutes_cartes.copy() in melanger_pioche.
CopieRegistre == toutes_cartes

\* Fault: random.seed(seed) is left out.
MelangeSansGraine(cartes, seed, e) == Shuffle(cartes, Len(cartes), e)

\* random.seed(seed); random.shuffle(self.pioche), from generator state e.
Melange(cartes, seed, e) == Shuffle(cartes, Len(cartes), Graine(seed))

\* The seed melanger_pioche uses: the one given, else random.randint(1, MaxSeed)
\* drawn from the module-level generator.
SeedUtilisee(seed) ==
    IF seed = None THEN 1 + RandBelow(etat_alea, MaxSeed) ELSE seed[1]

\* melanger_pioche(seed)
MelangerPioche(seed) ==
    LET s == SeedUtilisee(seed)
        e == IF seed = None THEN Suivant(etat_alea) ELSE etat_alea
        r == Melange(CopieRegistre, s, e)
    IN  /\ seed_melange' = <<s>>
        /\ pioche' = r.liste
        /\ etat_alea' = r.etat
        /\ dossiers' = Organiser(r.liste, main_joueur, defausse)
        /\ dernier' = Appel("melanger", TRUE)
        /\ UNCHANGED <<toutes_cartes, main_joueur, defausse, fichier>>

\* The hand distribuer_main_initiale builds from the first n cards.
MainDistribuee(n) == Trier(SubSeq(pioche, 1, n))

\* Fault: the hand is emptied before the size of the draw pile is tested.
DistribuerVideAvantTest(nombre_cartes) ==
    IF Len(pioche) < nombre_cartes
    THEN /\ main_joueur' = << >>
         /\ dernier' = Appel("distribuer", FALSE)
         /\ UNCHANGED <<toutes_cartes, pioche, defausse, seed_melange,
                        fichier, etat_alea, dossiers>>
    ELSE LET n == IF nombre_cartes < 0 THEN 0 ELSE nombre_cartes
         IN  /\ main_joueur' = MainDistribuee(n)
             /\ pioche' = SubSeq(pioche, n + 1, Len(pioche))
             /\ dossiers' = Organiser(SubSeq(pioche, n + 1, Len(pioche)),
                                      MainDistribuee(n), defausse)
             /\ dernier' = Appel("distribuer", TRUE)
             /\ UNCHANGED <<toutes_cartes, defausse, seed_melange, fichier,
                            etat_alea>>

\* distribuer_main_initiale(nombre_cartes)
DistribuerMainInitiale(nombre_cartes) ==
    IF Len(pioche) < nombre_cartes
    THEN /\ dernier' = Appel("distribuer", FALSE)
         /\ UNCHANGED <<toutes_cartes, pioche, main_joueur, defausse,
                        seed_melange, fichier, etat_alea, dossiers>>
    ELSE LET n == IF nombre_cartes < 0 THEN 0 ELSE nombre_cartes
         IN  /\ main_joueur' = MainDistribuee(n)
             /\ pioche' = SubSeq(pioche, n + 1, Len(pioche))
             /\ dossiers' = Organiser(SubSeq(pioche, n + 1, Len(pioche)),
                                      MainDistribuee(n), defausse)
             /\ dernier' = Appel("distribuer", TRUE)
             /\ UNCHANGED <<toutes_cartes, defausse, seed_melange, fichier,
                            etat_alea>>

\* Fault: the card drawn is not appended to the hand.
MainSansPioche(carte) == Trier(main_joueur)

\* The hand after piocher_carte took `carte`.
MainApresPioche(carte) == Trier(Append(main_joueur, carte))

\* Faults: the card is read and left in place (self.pioche[0]); the card is
\* taken from the other end (self.pioche.pop()).
PiocheSansRetrait == pioche
PiocheSansDernier == SubSeq(pioche, 1, Len(pioche) - 1)

\* The draw pile after self.pioche.pop(0).
PiocheApresPioche == Tail(pioche)

\* piocher_carte()
PiocherCarte ==
    IF pioche = << >>
    THEN /\ dernier' = Appel("piocher", FALSE)
         /\ UNCHANGED <<toutes_cartes, pioche, main_joueur, defausse,
                        seed_melange, fichier, etat_alea, dossiers>>
    ELSE /\ pioche' = PiocheApresPioche
         /\ main_joueur' = MainApresPioche(Head(pioche))
         /\ dossiers' = Organiser(PiocheApresPioche,
                                  MainApresPioche(Head(pioche)), defausse)
         /\ dernier' = Appel("piocher", TRUE)
         /\ UNCHANGED <<toutes_cartes, defausse, seed_melange, fichier,
                        etat_alea>>

\* The test of defausser_carte on its argument.
IndexValide(index_carte) ==
    ~ (index_carte < 1 \/ index_carte > Len(main_joueur))

\* Fault: the 1-based index is used as a 0-based one.
PopSuivant(liste, k) ==
    SubSeq(liste, 1, k + 1) \o SubSeq(liste, k + 3, Len(liste))

\* list.pop(k) for a 0-based k in range: the list without that element.
Pop(liste, k) ==
    SubSeq(liste, 1, k) \o SubSeq(liste, k + 2, Len(liste))

\* defausser_carte(index_carte)
DefausserCarte(index_carte) ==
    IF main_joueur = << >> \/ ~ IndexValide(index_carte)
    THEN /\ dernier' = Appel("defausser", FALSE)
         /\ UNCHANGED <<toutes_cartes, pioche, main_joueur, defausse,
                        seed_melange, fichier, etat_alea, dossiers>>
    ELSE /\ main_joueur' = Pop(main_joueur, index_carte - 1)
         /\ defausse' = Append(defausse, main_joueur[index_carte])
         /\ dossiers' = Organiser(pioche, Pop(main_joueur, index_carte - 1),
                                  Append(defausse, main_joueur[index_carte]))
         /\ dernier' = Appel("defausser", TRUE)
         /\ UNCHANGED <<toutes_cartes, pioche, seed_melange, fichier,
                        etat_alea>>

\* What sauvegarder_partie writes.
Enregistrement == Etat(seed_melange, pioche, main_joueur, defausse)

\* Fault: the seed is forgotten once it is written.
SauvegardeSansSeed ==
    /\ fichier' = Enregistrement
    /\ seed_melange' = None
    /\ dernier' = Appel("sauvegarder", TRUE)
    /\ UNCHANGED <<toutes_cartes, pioche, main_joueur, defausse,
                   etat_alea, dossiers>>

\* sauvegarder_partie(): the file is written, or open/write raises and the
\* file is left as it was or cut short.
SauvegarderPartie ==
    /\ \/ /\ fichier' = Enregistrement
          /\ dernier' = Appel("sauvegarder", TRUE)
       \/ /\ fichier' \in {fichier, Illisible}
          /\ dernier' = Appel("sauvegarder", FALSE)
    /\ UNCHANGED <<toutes_cartes, pioche, main_joueur, defausse,
                   seed_melange, etat_alea, dossiers>>

\* charger_partie(): the assignments run in order until one raises; the
\* directories are organised when none did.
ChargerPartie ==
    IF ~ fichier.existe \/ ~ fichier.lisible
    THEN /\ dernier' = Appel("charger", FALSE)
         /\ UNCHANGED <<toutes_cartes, pioche, main_joueur, defausse,
                        seed_melange, fichier, etat_alea, dossiers>>
    ELSE LET aPioche   == "pioche" \in fichier.cles
             aMain     == aPioche /\ "main_joueur" \in fichier.cles
             aDefausse == aMain /\ "defausse" \in fichier.cles
         IN  /\ seed_melange' = IF "seed_melange" \in fichier.cles
                                THEN fichier.seed_melange ELSE None
             /\ pioche' = IF aPioche THEN TrouverCartes(fichier.pioche)
                          ELSE pioche
             /\ main_joueur' = IF aMain
                               THEN TrouverCartes(fichier.main_joueur)
                               ELSE main_joueur
             /\ defausse' = IF aDefausse
                            THEN TrouverCartes(fichier.defausse)
                            ELSE defausse
             /\ dossiers' = IF aDefausse
                            THEN Organiser(TrouverCartes(fichier.pioche),
                                           TrouverCartes(fichier.main_joueur),
                                           TrouverCartes(fichier.defausse))
                            ELSE dossiers
             /\ dernier' = Appel("charger", aDefausse)
             /\ UNCHANGED <<toutes_cartes, fichier, etat_alea>>

\* Another program replaces, removes or damages the save file between two
\* calls of the manager (of several writes in a row the last one counts).
FichierExterne ==
    /\ dernier.op # "externe"
    /\ fichier' \in FichiersExternes
    /\ dernier' = Appel("externe", TRUE)
    /\ UNCHANGED <<toutes_cartes, pioche, main_joueur, defausse,
                   seed_melange, etat_alea, dossiers>>

(* --------------------------- specification ----------------------------- *)

\* Arguments the calls are tried with.
SeedsDonnees == {None} \cup {<<s>> : s \in 1..MaxSeed}
NombresDonnes == (0 - 1)..(MaxNumero + 1)
IndexDonnes == (0 - 1)..(MaxNumero + 1)

\* No shuffle made yet.
HistInit == ordres = [s \in 1..MaxSeed |-> None]

\* GestionnaireCartes() followed by a successful charger_cartes(): any
\* non-empty set of card files, empty piles, no seed, no save file yet,
\* empty directories; the generator is seeded by the system. The methods
\* are then called in any order (position "appels").
Init ==
    /\ \E presents \in (SUBSET Numeros) \ {{}} :
           toutes_cartes = ChargerCartes(presents)
    /\ pioche = << >>
    /\ main_joueur = << >>
    /\ defausse = << >>
    /\ seed_melange = None
    /\ fichier = Absent
    /\ etat_alea \in 0..(ModAlea - 1)
    /\ dossiers = DossiersVides
    /\ dernier = Appel("init", TRUE)
    /\ position = "appels"
    /\ HistInit

\* A shuffle is explored while the piles stay within MaxCartes cards.
MelangerBorne(seed) ==
    /\ Len(toutes_cartes) + Len(main_joueur) + Len(defausse) <= MaxCartes
    /\ MelangerPioche(seed)

Melanger ==
    /\ \E seed \in SeedsDonnees : MelangerBorne(seed)
    /\ UNCHANGED <<position, hist>>

Distribuer ==
    /\ \E n \in NombresDonnes : DistribuerMainInitiale(n)
    /\ UNCHANGED <<position, hist>>

Piocher ==
    /\ PiocherCarte
    /\ UNCHANGED <<position, hist>>

Defausser ==
    /\ \E i \in IndexDonnes : DefausserCarte(i)
    /\ UNCHANGED <<position, hist>>

Sauvegarder ==
    /\ SauvegarderPartie
    /\ UNCHANGED <<position, hist>>

Charger ==
    /\ ChargerPartie
    /\ Len(pioche') + Len(main_joueur') + Len(defausse') <= MaxCartes
    /\ UNCHANGED <<position, hist>>

Next ==
    \/ Melanger
    \/ Distribuer
    \/ Piocher
    \/ Defausser
    \/ Sauvegarder
    \/ Charger

\* The manager alone: the save file is written by sauvegarder_partie only.
Spec == Init /\ [][Next]_vars

\* Lists of at most MaxCartes card numbers, which the registry holds or not.
ListesQuelconques ==
    UNION {[1..n -> Numeros] : n \in 0..MaxCartes}

\* The three piles cut out of one list of card numbers.
PilesDe(tout, a, b) ==
    /\ pioche = TrouverCartes(SubSeq(tout, 1, a))
    /\ main_joueur = TrouverCartes(SubSeq(tout, a + 1, b))
    /\ defausse = TrouverCartes(SubSeq(tout, b + 1, Len(tout)))

\* Any state charger_partie can leave: any registry, any lists of card
\* numbers in the three piles (sorted or not, repeated or not, of the
\* registry or not), a seed or none, any state of the generator.
InitPiles ==
    /\ \E presents \in (SUBSET Numeros) \ {{}} :
           toutes_cartes = ChargerCartes(presents)
    /\ \E tout \in ListesQuelconques :
           \E a \in 0..Len(tout) : \E b \in a..Len(tout) :
               PilesDe(tout, a, b)
    /\ seed_melange \in {None, <<1>>}
    /\ fichier = Absent
    /\ etat_alea \in 0..(ModAlea - 1)
    /\ dossiers = Organiser(pioche, main_joueur, defausse)
    /\ dernier = Appel("init", TRUE)
    /\ position = "appels"
    /\ HistInit

NextJeu ==
    \/ Melanger
    \/ Distribuer
    \/ Piocher
    \/ Defausser

\* The deck operations alone, from any state a load can leave.
SpecJeu == InitPiles /\ [][NextJeu]_vars

Externe ==
    /\ FichierExterne
    /\ UNCHANGED <<position, hist>>

NextExterne ==
    \/ Next
    \/ Externe

\* The manager and the other programs that write the save file.
SpecExterne == Init /\ [][NextExterne]_vars

NextChargement ==
    \/ Externe
    \/ Charger

\* Any registry, at most MaxExterne cards of any numbers in the three
\* piles, a seed or none.
InitChargement ==
    /\ \E presents \in (SUBSET Numeros) \ {{}} :
           toutes_cartes = ChargerCartes(presents)
    /\ \E tout \in ListesExternes :
           \E a \in 0..Len(tout) : \E b \in a..Len(tout) :
               PilesDe(tout, a, b)
    /\ seed_melange \in {None, <<MaxSeed>>}
    /\ fichier = Absent
    /\ etat_alea = 0
    /\ dossiers = Organiser(pioche, main_joueur, defausse)
    /\ dernier = Appel("init", TRUE)
    /\ position = "appels"
    /\ HistInit

\* Loads alone, of any file another program left, from any such state.
SpecChargement == InitChargement /\ [][NextChargement]_vars

(* ------------------------- main and the menu --------------------------- *)

\* Fault: the discard pile is not emptied between the shuffle and the deal.
NouvellePartieSansVider ==
    LET s == SeedUtilisee(None)
        r == Melange(CopieRegistre, s, Suivant(etat_alea))
        n == NombreCartesDefaut
    IN  /\ seed_melange' = <<s>>
        /\ etat_alea' = r.etat
        /\ IF Len(r.liste) < n
           THEN /\ pioche' = r.liste
                /\ main_joueur' = << >>
                /\ dossiers' = Organiser(r.liste, main_joueur, defausse)
                /\ dernier' = Appel("distribuer", FALSE)
           ELSE /\ pioche' = SubSeq(r.liste, n + 1, Len(r.liste))
                /\ main_joueur' = Trier(SubSeq(r.liste, 1, n))
                /\ dossiers' = Organiser(SubSeq(r.liste, n + 1, Len(r.liste)),
                                         Trier(SubSeq(r.liste, 1, n)),
                                         defausse)
                /\ dernier' = Appel("distribuer", TRUE)
        /\ UNCHANGED <<toutes_cartes, defausse, fichier>>

\* melanger_pioche(); main_joueur = []; defausse = [];
\* distribuer_main_initiale(): the shuffle organises the directories with
\* the hand and the discard pile it finds, the deal organises them again
\* when it succeeds.
NouvellePartie ==
    LET s == SeedUtilisee(None)
        r == Melange(CopieRegistre, s, Suivant(etat_alea))
        n == NombreCartesDefaut
    IN  /\ seed_melange' = <<s>>
        /\ etat_alea' = r.etat
        /\ defausse' = << >>
        /\ IF Len(r.liste) < n
           THEN /\ pioche' = r.liste
                /\ main_joueur' = << >>
                /\ dossiers' = Organiser(r.liste, main_joueur, defausse)
                /\ dernier' = Appel("distribuer", FALSE)
           ELSE /\ pioche' = SubSeq(r.liste, n + 1, Len(r.liste))
                /\ main_joueur' = Trier(SubSeq(r.liste, 1, n))
                /\ dossiers' = Organiser(SubSeq(r.liste, n + 1, Len(r.liste)),
                                         Trier(SubSeq(r.liste, 1, n)), << >>)
                /\ dernier' = Appel("distribuer", TRUE)
        /\ UNCHANGED <<toutes_cartes, fichier>>

\* main() after a successful charger_cartes(): a shuffle and a deal on the
\* empty hand and discard pile, then the menu, or the end when the deal
\* is refused.
Demarrer ==
    /\ position = "main"
    /\ NouvellePartie
    /\ position' = IF dernier'.ok THEN "invite" ELSE "fin"
    /\ UNCHANGED hist

\* A turn of the loop of menu_principal that changes nothing of the
\* manager and comes back to the prompt.
SansEffet(op, ok) ==
    /\ dernier' = Appel(op, ok)
    /\ UNCHANGED <<toutes_cartes, pioche, main_joueur, defausse,
                   seed_melange, fichier, etat_alea, dossiers>>

\* Choice "1".
ChoixPiocher ==
    /\ position = "invite"
    /\ PiocherCarte
    /\ UNCHANGED <<position, hist>>

\* Choice "2": refused on an empty hand; else a second input, which is an
\* integer, given to defausser_carte, or is not one (ValueError).
ChoixDefausser ==
    /\ position = "invite"
    /\ IF main_joueur = << >>
       THEN SansEffet("choix 2", FALSE)
       ELSE \/ \E index \in IndexDonnes : DefausserCarte(index)
            \/ SansEffet("saisie", FALSE)
    /\ UNCHANGED <<position, hist>>

\* Choice "3".
ChoixSauvegarder ==
    /\ position = "invite"
    /\ SauvegarderPartie
    /\ UNCHANGED <<position, hist>>

\* Fault: a load that fails ends the loop.
ChoixChargerFatal ==
    /\ position = "invite"
    /\ ChargerPartie
    /\ position' = IF dernier'.ok THEN "invite" ELSE "fin"
    /\ UNCHANGED hist

\* Choice "4".
ChoixCharger ==
    /\ position = "invite"
    /\ ChargerPartie
    /\ UNCHANGED <<position, hist>>

\* Choice "5".
ChoixRecommencer ==
    /\ position = "invite"
    /\ NouvellePartie
    /\ UNCHANGED <<position, hist>>

\* Choice "6".
ChoixReorganiser ==
    /\ position = "invite"
    /\ dossiers' = Organiser(pioche, main_joueur, defausse)
    /\ dernier' = Appel("organiser", TRUE)
    /\ UNCHANGED <<toutes_cartes, pioche, main_joueur, defausse,
                   seed_melange, fichier, etat_alea>>
    /\ UNCHANGED <<position, hist>>

\* Any other choice, and an input that raises (end of the input stream):
\* a message, and the prompt again.
ChoixInvalide ==
    /\ position = "invite"
    /\ SansEffet("choix invalide", FALSE) \/ SansEffet("erreur", FALSE)
    /\ UNCHANGED <<position, hist>>

\* Choice "0".
Quitter ==
    /\ position = "invite"
    /\ SansEffet("quitter", TRUE)
    /\ position' = "fin"
    /\ UNCHANGED hist

\* KeyboardInterrupt at either input.
Interruption ==
    /\ position = "invite"
    /\ SansEffet("interruption", TRUE)
    /\ position' = "fin"
    /\ UNCHANGED hist

\* main() has made the manager and charger_cartes() has returned True.
InitMain ==
    /\ \E presents \in (SUBSET Numeros) \ {{}} :
           toutes_cartes = ChargerCartes(presents)
    /\ pioche = << >>
    /\ main_joueur = << >>
    /\ defausse = << >>
    /\ seed_melange = None
    /\ fichier = Absent
    /\ etat_alea \in 0..(ModAlea - 1)
    /\ dossiers = DossiersVides
    /\ dernier = Appel("init", TRUE)
    /\ position = "main"
    /\ HistInit

NextMenu ==
    \/ Demarrer
    \/ ChoixPiocher
    \/ ChoixDefausser
    \/ ChoixSauvegarder
    \/ ChoixCharger
    \/ ChoixRecommencer
    \/ ChoixReorganiser
    \/ ChoixInvalide
    \/ Quitter
    \/ Interruption

\* A run of main(): the save file is written by choice "3" only.
SpecMenu == InitMain /\ [][NextMenu]_vars

\* A shuffle, with the history of shuffles kept: the order the seed gave,
\* and whether that seed had been used before.
MelangerHistoire ==
    /\ \E seed \in SeedsDonnees : MelangerBorne(seed)
    /\ UNCHANGED position
    /\ ordres' = [ordres EXCEPT ![seed_melange'[1]] =
                     <<[ordre |-> NumerosDe(pioche'),
                        repete |-> ordres[seed_melange'[1]] # None]>>]

NextHistoire ==
    \/ MelangerHistoire
    \/ Distribuer
    \/ Piocher
    \/ Defausser
    \/ Sauvegarder
    \/ Charger

\* The manager alone, with the history of its shuffles.
SpecHistoire == Init /\ [][NextHistoire]_vars

\* Any state whose piles hold pairwise distinct cards: the cards of distinct
\* numbers, in any order, in any of the three piles.
NumerosDistincts(nums) ==
    \A j, k \in 1..Len(nums) : j # k => nums[j] # nums[k]

InitPilesDistinctes ==
    /\ \E presents \in (SUBSET Numeros) \ {{}} :
           toutes_cartes = ChargerCartes(presents)
    /\ \E tout \in {l \in UNION {[1..n -> 1..(MaxNumero + 1)] :
                                       n \in 0..(MaxNumero + 1)} :
                        NumerosDistincts(l)} :
           \E a \in 0..Len(tout) : \E b \in a..Len(tout) :
               PilesDe(tout, a, b)
    /\ seed_melange \in {None, <<1>>}
    /\ fichier = Absent
    /\ etat_alea = 0
    /\ dossiers = Organiser(pioche, main_joueur, defausse)
    /\ dernier = Appel("init", TRUE)
    /\ position = "appels"
    /\ HistInit

NextPiocheDefausse ==
    \/ Piocher
    \/ Defausser

\* Draws and discards alone, from any state of pairwise distinct cards.
SpecPiocheDefausse == InitPilesDistinctes /\ [][NextPiocheDefausse]_vars

(* ------------------------------ properties ----------------------------- *)

\* The cards of the three piles, and the bag of the elements of a sequence.
CartesEnJeu == pioche \o main_joueur \o defausse

SacDe(liste) ==
    [x \in {liste[k] : k \in 1..Len(liste)} |->
        Cardinality({k \in 1..Len(liste) : liste[k] = x})]

\* C1: a draw or a discard, successful or rejected, leaves the bag of card
\* numbers held by the three piles together as it was; so does any sequence
\* of them, from any state of pairwise distinct cards.
C1_Conservation ==
    [][SacDe(NumerosDe(CartesEnJeu))' = SacDe(NumerosDe(CartesEnJeu))]_vars

C1_Witness ==
    /\ dernier = Appel("defausser", TRUE)
    /\ pioche # << >>
    /\ main_joueur # << >>
    /\ defausse # << >>

\* C2 as stated: in every reachable state no card number occurs more than
\* once across the three piles.
SansDoublon == NumerosDistincts(NumerosDe(CartesEnJeu))

C2_SansDoublon == SansDoublon

\* The save file holds no card number twice.
FichierSansDoublon ==
    NumerosDistincts(fichier.pioche \o fichier.main_joueur \o fichier.defausse)

\* A shuffle called while the hand or the discard pile holds cards.
MelangeMainPleine ==
    /\ dernier'.op = "melanger"
    /\ main_joueur # << >> \/ defausse # << >>

\* C2 as amended: the initial state has no duplicate, and every call other
\* than a shuffle made while the hand or the discard pile holds cards keeps
\* the piles and the save file free of duplicates; so no card number occurs
\* twice in any state reached with shuffles made on an empty hand and an
\* empty discard pile only.
C2_SansDoublonSiMelangeSurMainVide ==
    /\ Init => SansDoublon /\ FichierSansDoublon
    /\ [][(SansDoublon /\ FichierSansDoublon /\ ~ MelangeMainPleine)
            => (SansDoublon' /\ FichierSansDoublon')]_vars

C2_Witness ==
    /\ dernier = Appel("charger", TRUE)
    /\ SansDoublon
    /\ Len(toutes_cartes) >= 2
    /\ Len(CartesEnJeu) = Len(toutes_cartes)
    /\ main_joueur # << >>
    /\ defausse # << >>

\* C3 as stated: a successful deal(n), 0 <= n <= len(draw pile), removes the
\* first n cards of the draw pile and adds them to the cards already in the
\* hand: the hand grows by n, the draw pile shrinks by n, no card is lost.
C3_DistributionAdditive ==
    [][\A n \in NombresDonnes :
          (n >= 0 /\ n <= Len(pioche) /\ DistribuerMainInitiale(n)) =>
              /\ dernier'.ok
              /\ pioche' = SubSeq(pioche, n + 1, Len(pioche))
              /\ Len(main_joueur') = Len(main_joueur) + n
              /\ SacDe(main_joueur') =
                     SacDe(main_joueur \o SubSeq(pioche, 1, n))
              /\ SacDe(CartesEnJeu') = SacDe(CartesEnJeu)]_vars

\* C4: a draw on an empty draw pile, a deal of more cards than the draw pile
\* holds and a discard with an empty hand or an index outside 1..len(hand)
\* return False and leave the three piles and the seed as they were.
C4_RejetSansEffet ==
    [][(\/ pioche = << >> /\ PiocherCarte
        \/ \E n \in NombresDonnes :
              n > Len(pioche) /\ DistribuerMainInitiale(n)
        \/ \E i \in IndexDonnes :
              /\ main_joueur = << >> \/ i < 1 \/ i > Len(main_joueur)
              /\ DefausserCarte(i))
          => /\ dernier'.ok = FALSE
             /\ UNCHANGED <<pioche, main_joueur, defausse, seed_melange>>]_vars

C4_Witness ==
    /\ dernier = Appel("distribuer", FALSE)
    /\ pioche # << >>
    /\ main_joueur # << >>
    /\ defausse # << >>
    /\ seed_melange # None

\* C5: a draw on a non-empty draw pile succeeds, removes the front card of
\* the draw pile and keeps the rest in order, puts that card in the hand
\* and leaves the discard pile as it was.
C5_PiocheDuDessus ==
    [][(pioche # << >> /\ PiocherCarte) =>
          /\ dernier'.ok
          /\ pioche' = Tail(pioche)
          /\ SacDe(main_joueur') = SacDe(Append(main_joueur, Head(pioche)))
          /\ defausse' = defausse]_vars

C5_Witness ==
    /\ dernier = Appel("piocher", TRUE)
    /\ Len(pioche) >= 1
    /\ Len(main_joueur) >= 2

\* C6: discard(i) succeeds exactly when 1 <= i <= len(hand); the card taken
\* is then the i-th of the hand, it becomes the last element of the discard
\* pile behind the earlier ones, and the rest of the hand keeps its order.
C6_Defausse ==
    [][\A i \in IndexDonnes : DefausserCarte(i) =>
          /\ dernier'.ok <=> (1 <= i /\ i <= Len(main_joueur))
          /\ dernier'.ok =>
                /\ defausse' = Append(defausse, main_joueur[i])
                /\ main_joueur' =
                       [k \in 1..(Len(main_joueur) - 1) |->
                           IF k < i THEN main_joueur[k]
                           ELSE main_joueur[k + 1]]
                /\ pioche' = pioche]_vars

C6_Witness ==
    /\ dernier = Appel("defausser", TRUE)
    /\ Len(defausse) >= 2
    /\ Len(main_joueur) >= 1
    /\ defausse[Len(defausse)].numero < main_joueur[Len(main_joueur)].numero

\* C7 as stated: in every reachable state, also after the load of a record
\* whose hand is not in ascending order, the hand is sorted ascending by
\* card number.
C7_MainTriee ==
    \A k \in 1..(Len(main_joueur) - 1) :
        main_joueur[k].numero <= main_joueur[k + 1].numero

\* C8: a load that follows a successful save succeeds and gives back the
\* same seed and the same card numbers in the same order in each pile; the
\* record of the state loaded is the file that was read.
C8_AllerRetour ==
    [][(dernier = Appel("sauvegarder", TRUE) /\ ChargerPartie) =>
          /\ dernier'.ok
          /\ seed_melange' = seed_melange
          /\ NumerosDe(pioche') = NumerosDe(pioche)
          /\ NumerosDe(main_joueur') = NumerosDe(main_joueur)
          /\ NumerosDe(defausse') = NumerosDe(defausse)
          /\ fichier' = fichier
          /\ Enregistrement' = fichier]_vars

C8_Witness ==
    /\ dernier = Appel("charger", TRUE)
    /\ fichier = Enregistrement
    /\ seed_melange # None
    /\ pioche # << >>
    /\ defausse # << >>
    /\ main_joueur # << >>

\* C9: a shuffle with a seed used before gives the draw-pile order that
\* seed gave before, whatever was called in between.
C9_MelangeDeterministe ==
    [][(\E seed \in SeedsDonnees : MelangerPioche(seed)) =>
          \/ ordres[seed_melange'[1]] = None
          \/ ordres[seed_melange'[1]][1].ordre = NumerosDe(pioche')]_vars

C9_Witness ==
    /\ dernier = Appel("melanger", TRUE)
    /\ main_joueur # << >> \/ defausse # << >>
    /\ \E s, t \in 1..MaxSeed :
          /\ seed_melange = <<s>>
          /\ ordres[s] # None
          /\ ordres[s][1].repete
          /\ ordres[t] # None
          /\ ordres[t][1].ordre # ordres[s][1].ordre

\* C10: after a shuffle the draw pile holds every card of the registry once
\* and nothing else, the seed recorded is the one given, or one of
\* 1..MaxSeed when none is given, and the registry, the hand and the discard
\* pile are as before.
C10_Melange ==
    [][\A seed \in SeedsDonnees : MelangerPioche(seed) =>
          /\ Len(pioche') = Len(toutes_cartes)
          /\ SacDe(pioche') = SacDe(toutes_cartes)
          /\ seed # None => seed_melange' = seed
          /\ seed = None => \E s \in 1..MaxSeed : seed_melange' = <<s>>
          /\ UNCHANGED <<toutes_cartes, main_joueur, defausse>>]_vars

C10_Witness ==
    /\ dernier = Appel("melanger", TRUE)
    /\ NumerosDe(pioche) # NumerosDe(toutes_cartes)
    /\ main_joueur # << >> \/ defausse # << >>

\* C11 as stated: a load that returns False leaves the seed and the three
\* piles exactly as they were before the call.
C11_EchecSansEffet ==
    [][(ChargerPartie /\ ~ dernier'.ok) =>
          UNCHANGED <<seed_melange, pioche, main_joueur, defausse>>]_vars

\* C12 as stated: a load of a record that lacks one of the four fields
\* (seed, draw pile, hand, discard pile) returns False.
C12_RejetIncomplet ==
    [][(ChargerPartie /\ fichier.existe /\ fichier.lisible
                      /\ fichier.cles # Cles) => ~ dernier'.ok]_vars

\* Each directory holds exactly the files of the cards of its pile that
\* have a source file.
DossierFidele(dossier, cartes) ==
    \A n \in 1..(MaxNumero + 1) :
        n \in dossier <=>
            \E k \in 1..Len(cartes) :
                cartes[k].numero = n /\ cartes[k].chemin # 0

DossiersFideles ==
    /\ DossierFidele(dossiers.pioche, pioche)
    /\ DossierFidele(dossiers.main, main_joueur)
    /\ DossierFidele(dossiers.defausse, defausse)

\* C13 as stated: when a shuffle, a deal, a draw, a discard or a load has
\* returned, successfully or not, having changed a pile, the directories
\* mirror the piles.
C13_DossiersSuiventLesPiles ==
    [][(/\ dernier'.op \in {"melanger", "distribuer", "piocher",
                             "defausser", "charger"}
        /\ <<pioche, main_joueur, defausse>>' #
               <<pioche, main_joueur, defausse>>)
          => DossiersFideles']_vars

\* C16: after a load that returns True the seed and the card numbers of the
\* three piles, in order, are those of the record, whatever the state was
\* before and whether or not the registry holds the numbers: each card
\* loaded is the registry card of its number, or a card without path that
\* carries the number.
C16_ChargementIntegral ==
    [][(ChargerPartie /\ dernier'.ok) =>
          /\ seed_melange' = fichier.seed_melange
          /\ NumerosDe(pioche') = fichier.pioche
          /\ NumerosDe(main_joueur') = fichier.main_joueur
          /\ NumerosDe(defausse') = fichier.defausse
          /\ \A k \in 1..Len(CartesEnJeu') :
                \/ \E j \in 1..Len(toutes_cartes) :
                       /\ CartesEnJeu'[k] = toutes_cartes[j]
                       /\ \A i \in 1..(j - 1) :
                             toutes_cartes[i].numero # CartesEnJeu'[k].numero
                \/ /\ CartesEnJeu'[k].chemin = 0
                   /\ \A j \in 1..Len(toutes_cartes) :
                         toutes_cartes[j].numero # CartesEnJeu'[k].numero]_vars

\* A load has replaced every pile by one of other numbers, one of them a
\* number the registry does not hold.
C16_Witness ==
    /\ dernier = Appel("charger", TRUE)
    /\ fichier.cles = Cles
    /\ NumerosDe(pioche) = fichier.pioche
    /\ NumerosDe(main_joueur) = fichier.main_joueur
    /\ main_joueur # << >>
    /\ \E k \in 1..Len(pioche) : pioche[k].chemin = 0
    /\ \E k \in 1..Len(main_joueur) : main_joueur[k].chemin # 0

\* C17: a draw succeeds exactly when the draw pile is not empty and then
\* shortens it by one card, so a draw pile of m cards gives m draws that
\* succeed and a next one that fails; an empty draw pile stays empty under
\* draws, discards and saves; no draw, deal or discard lengthens it.
C17_Epuisement ==
    [][/\ dernier'.op = "piocher" =>
             /\ dernier'.ok <=> pioche # << >>
             /\ Len(pioche') = IF pioche = << >> THEN 0 ELSE Len(pioche) - 1
       /\ (/\ pioche = << >>
           /\ dernier'.op \in {"piocher", "defausser", "sauvegarder"})
             => pioche' = << >>
       /\ dernier'.op \in {"piocher", "distribuer", "defausser"}
             => Len(pioche') <= Len(pioche)]_vars

\* The draw pile was drawn to its end, and a further draw was refused.
C17_Witness ==
    /\ dernier = Appel("piocher", FALSE)
    /\ pioche = << >>
    /\ Len(main_joueur) >= 2
    /\ main_joueur[1].numero # main_joueur[2].numero

\* C18: a draw, a deal, a discard and a save, successful or not, leave the
\* seed as it was; a save leaves the three piles and the registry too.
C18_SeedStable ==
    [][/\ dernier'.op \in {"piocher", "distribuer", "defausser",
                            "sauvegarder"}
             => seed_melange' = seed_melange
       /\ dernier'.op = "sauvegarder" =>
             UNCHANGED <<pioche, main_joueur, defausse, toutes_cartes>>]_vars

\* A save was made of a shuffled, dealt and discarded game.
C18_Witness ==
    /\ dernier.op = "sauvegarder"
    /\ seed_melange # None
    /\ fichier.seed_melange = seed_melange
    /\ pioche # << >>
    /\ main_joueur # << >>
    /\ defausse # << >>

\* C14: a turn of the loop of menu_principal ends at the prompt again or
\* ends the loop; it ends the loop only on choice "0" or on an interrupt,
\* and never when what was chosen failed or raised.
C14_BoucleContinue ==
    [][position = "invite" =>
          /\ position' \in {"invite", "fin"}
          /\ position' = "fin" => dernier'.op \in {"quitter", "interruption"}
          /\ ~ dernier'.ok => position' = "invite"]_vars

\* The prompt is back after a load of a damaged save file was refused.
C14_Witness ==
    /\ position = "invite"
    /\ dernier = Appel("charger", FALSE)
    /\ fichier = Illisible
    /\ defausse # << >>

C19_PartitionAuMenu ==
    position = "invite" => SacDe(CartesEnJeu) = SacDe(toutes_cartes)

\* The prompt after a load gave back a game with cards in all three piles.
C19_Witness ==
    /\ position = "invite"
    /\ dernier = Appel("charger", TRUE)
    /\ Len(toutes_cartes) = MaxNumero
    /\ main_joueur # << >>
    /\ defausse # << >>

====
